---- MODULE Spec2Model ----
(***************************************************************************)
(* server-stats: a collector (crates/collector) registers its metrics     *)
(* endpoint with the web aggregator (crates/web); the aggregator dials    *)
(* back, keeps the client in a Mutex<Vec<..>> and, on GET /metrics, calls *)
(* request_metrics on every stored client in order. The collector answers *)
(* from its hostname file and proc_dir/meminfo; the aggregator derives    *)
(* the used memory of every snapshot it renders.                           *)
(***************************************************************************)
EXTENDS Naturals, Sequences, FiniteSets

\* ---------------------------------------------------------------- bounds
NumAgents == 2
NumPolls == 1
MaxRegistry == 2
MaxLines == 2
MaxLost == 1

\* The retry budgets of the collector's connect loop and register loop.
MaxConnectionAttempts == 5
MaxRegistrationErrors == 5

Agents == 1..NumAgents
Polls == 1..NumPolls

VARIABLES
    up,                   \* up[a]: the network path aggregator -> address a works
    collector,            \* the addresses at which a collector process of this repository runs
    listening,            \* the collector's spawned tonic server is bound and accepting
    cpc,                  \* the collector's position in main
    client,               \* registration_client is bound (the connect loop broke with Ok)
    connection_attempts,
    registration_errors,
    regCalls,             \* history: register calls the collector has issued
    reg,                  \* reg[a]: the aggregator's Register handler invocation for the caller at a
    okBy,                 \* history: okBy[a] = OK acknowledgments returned to the caller at a
    connectors,           \* Arc<Mutex<Vec<MetricsServiceClient>>>: the vector
    mutex,                \* its tokio Mutex: the set of polls holding the guard (none or one)
    poll,                 \* poll[p]: one GET /metrics handler invocation
    overflow_checks,      \* the build profile: arithmetic overflow panics (debug) or wraps (release)
    hostname_file,        \* the collector host's hostname file: None when it cannot be read
    meminfo,              \* the collector host's proc_dir/meminfo: None, or its lines
    rpc,                  \* one RequestMetrics call at the collector and its outcome
    snapshot,             \* a MetricsResponse the aggregator has collected
    page                  \* its rendering in the GET /metrics handler

systemVars == <<up, collector, listening, cpc, client, connection_attempts,
                registration_errors, regCalls, reg, okBy, connectors, mutex, poll>>

pureVars == <<overflow_checks, hostname_file, meminfo, rpc, snapshot, page>>

vars == <<systemVars, pureVars>>

collectorVars == <<collector, listening, cpc, client, connection_attempts,
                   registration_errors, regCalls>>

\* No task holds the guard.
Free == {}

\* ------------------------------------------------------------- helpers

\* The aggregator's dial / metrics call to address a succeeds: the path works
\* and, where the endpoint is this repository's collector, its server listens.
Reach(a) == up[a] /\ (a \in collector => listening)

\* A stored client: the address it was dialled at, and whether that dial was
\* answered (history; MetricsServiceClient::connect only returns Ok then).
Client(a, ok) == [addr |-> a, proven |-> ok]

IdleReg == [pc |-> "idle", dial |-> "none", result |-> "none"]

\* i, metrics: the for loop's position and the vector it fills; status, body:
\* the response. History, kept while the handler runs: n0 and n are the
\* registry's length when the request arrived and when the lock was taken;
\* quiet says that no address changed reachability since the lock was taken.
IdlePoll == [pc |-> "idle", i |-> 0, n0 |-> 0, n |-> 0, metrics |-> <<>>,
             status |-> 0, body |-> <<>>, quiet |-> FALSE]

\* The handler has returned: its locals are dropped, the response is left.
Response(st, b) == [IdlePoll EXCEPT !.pc = "done", !.status = st, !.body = b]

\* Register calls accepted for processing and not yet answered.
InFlight == {a \in Agents : reg[a].pc \in {"dial", "lock"}}

\* A change of reachability is noted in every poll that holds the lock
\* (history flag quiet).
Disturb == [p \in Polls |->
              IF poll[p].pc = "wait"
              THEN [poll[p] EXCEPT !.quiet = FALSE] ELSE poll[p]]

\* ------------------------------------------------- Register handler (web)

\* A Register request from the caller at a reaches the handler, which starts
\* MetricsServiceClient::connect (an await).
Invoke(a) == reg' = [reg EXCEPT ![a] = [pc |-> "dial", dial |-> "none", result |-> "none"]]

\* A faulty RegisterDial: a lazy channel (connect_lazy) is taken without
\* waiting for the dial's outcome.
RegisterDial_Lazy(a) ==
    /\ UNCHANGED pureVars
    /\ reg[a].pc = "dial"
    /\ reg' = [reg EXCEPT ![a] = [pc |-> "lock",
                                  dial |-> IF Reach(a) THEN "ok" ELSE "failed",
                                  result |-> "none"]]
    /\ UNCHANGED <<up, collectorVars, okBy, connectors, mutex, poll>>

\* The reverse dial resolves: Ok(client) goes on to lock the registry, Err
\* is mapped to Status::internal and returned by `?`.
RegisterDial(a) ==
    /\ UNCHANGED pureVars
    /\ reg[a].pc = "dial"
    /\ IF Reach(a)
       THEN reg' = [reg EXCEPT ![a] = [pc |-> "lock", dial |-> "ok", result |-> "none"]]
       ELSE reg' = [reg EXCEPT ![a] = [pc |-> "ret", dial |-> "failed", result |-> "Internal"]]
    /\ UNCHANGED <<up, collectorVars, okBy, connectors, mutex, poll>>

\* A faulty RegisterAppend: the registry lock is taken before the dial, so
\* a call cannot append while another call is dialling.
RegisterAppend_BehindDial(a) ==
    /\ UNCHANGED pureVars
    /\ reg[a].pc = "lock"
    /\ mutex = Free
    /\ \A b \in Agents : reg[b].pc # "dial"
    /\ connectors' = Append(connectors, Client(a, reg[a].dial = "ok"))
    /\ reg' = [reg EXCEPT ![a] = [pc |-> "ret", dial |-> @.dial, result |-> "OK"]]
    /\ okBy' = [okBy EXCEPT ![a] = @ + 1]
    /\ UNCHANGED <<up, collectorVars, mutex, poll>>

\* A faulty RegisterAppend: an address already in the registry is not
\* pushed again.
RegisterAppend_Dedup(a) ==
    /\ UNCHANGED pureVars
    /\ reg[a].pc = "lock"
    /\ mutex = Free
    /\ connectors' = IF \E k \in 1..Len(connectors) : connectors[k].addr = a
                     THEN connectors
                     ELSE Append(connectors, Client(a, reg[a].dial = "ok"))
    /\ reg' = [reg EXCEPT ![a] = [pc |-> "ret", dial |-> reg[a].dial, result |-> "OK"]]
    /\ okBy' = [okBy EXCEPT ![a] = @ + 1]
    /\ UNCHANGED <<up, collectorVars, mutex, poll>>

\* A faulty RegisterAppend: try_lock instead of lock().await, the push
\* skipped when a poll holds the guard.
RegisterAppend_TryLock(a) ==
    /\ UNCHANGED pureVars
    /\ reg[a].pc = "lock"
    /\ connectors' = IF mutex = Free
                     THEN Append(connectors, Client(a, reg[a].dial = "ok"))
                     ELSE connectors
    /\ reg' = [reg EXCEPT ![a] = [pc |-> "ret", dial |-> reg[a].dial, result |-> "OK"]]
    /\ okBy' = [okBy EXCEPT ![a] = @ + 1]
    /\ UNCHANGED <<up, collectorVars, mutex, poll>>

\* self.connectors.lock().await resolves once the mutex is free; push and the
\* Ok(Response) follow with no await, and the guard drops on return.
RegisterAppend(a) ==
    /\ UNCHANGED pureVars
    /\ reg[a].pc = "lock"
    /\ mutex = Free
    /\ connectors' = Append(connectors, Client(a, reg[a].dial = "ok"))
    /\ reg' = [reg EXCEPT ![a] = [pc |-> "ret", dial |-> reg[a].dial, result |-> "OK"]]
    /\ okBy' = [okBy EXCEPT ![a] = @ + 1]
    /\ UNCHANGED <<up, collectorVars, mutex, poll>>

\* ------------------------------------------- any gRPC client of Register

ClientCall(a) ==
    /\ UNCHANGED pureVars
    /\ a \notin collector
    /\ reg[a].pc = "idle"
    /\ Len(connectors) + Cardinality(InFlight) < MaxRegistry
    /\ Invoke(a)
    /\ UNCHANGED <<up, collectorVars, okBy, connectors, mutex, poll>>

ClientReturn(a) ==
    /\ UNCHANGED pureVars
    /\ a \notin collector
    /\ reg[a].pc = "ret"
    /\ reg' = [reg EXCEPT ![a] = IdleReg]
    /\ UNCHANGED <<up, collectorVars, okBy, connectors, mutex, poll>>

\* ------------------------------------------------- collector main

\* The spawned task's Server::builder()...serve(grpc_addr) has bound its port.
ServerBind ==
    /\ UNCHANGED pureVars
    /\ collector # {}
    /\ cpc # "FailedFatal"
    /\ ~listening
    /\ listening' = TRUE
    /\ UNCHANGED <<up, collector, cpc, client, connection_attempts,
                   registration_errors, regCalls, reg, okBy, connectors, mutex, poll>>

\* The sleep after the spawn is over: the connect loop starts, counts its
\* first attempt and awaits RegistrationServiceClient::connect.
CollectorStart ==
    /\ UNCHANGED pureVars
    /\ collector # {}
    /\ cpc = "Starting"
    /\ connection_attempts' = connection_attempts + 1
    /\ cpc' = "Connect"
    /\ UNCHANGED <<up, collector, listening, client, registration_errors,
                   regCalls, reg, okBy, connectors, mutex, poll>>

\* connect resolves. Ok(client): break, and the while-let issues the first
\* register call. Err: warn and sleep one second.
CollectorConnect(ok) ==
    /\ UNCHANGED pureVars
    /\ cpc = "Connect"
    /\ IF ok
       THEN /\ client' = TRUE
            /\ cpc' = "Register"
            /\ regCalls' = regCalls + 1
            /\ \E a \in collector : Invoke(a)
       ELSE /\ cpc' = "ConnBackoff"
            /\ UNCHANGED <<client, regCalls, reg>>
    /\ UNCHANGED <<up, collector, listening, connection_attempts,
                   registration_errors, okBy, connectors, mutex, poll>>

\* A faulty CollectorConnRetry: the budget compared with > instead of >=.
CollectorConnRetry_OffByOne ==
    /\ UNCHANGED pureVars
    /\ cpc = "ConnBackoff"
    /\ IF connection_attempts > MaxConnectionAttempts
       THEN /\ cpc' = "FailedFatal"
            /\ listening' = FALSE
            /\ UNCHANGED connection_attempts
       ELSE /\ connection_attempts' = connection_attempts + 1
            /\ cpc' = "Connect"
            /\ UNCHANGED listening
    /\ UNCHANGED <<up, collector, client, registration_errors, regCalls,
                   reg, okBy, connectors, mutex, poll>>

\* The sleep after a failed connect is over: panic once the budget is spent
\* (the process, and with it the spawned server, ends), else loop.
CollectorConnRetry ==
    /\ UNCHANGED pureVars
    /\ cpc = "ConnBackoff"
    /\ IF connection_attempts >= MaxConnectionAttempts
       THEN /\ cpc' = "FailedFatal"
            /\ listening' = FALSE
            /\ UNCHANGED connection_attempts
       ELSE /\ connection_attempts' = connection_attempts + 1
            /\ cpc' = "Connect"
            /\ UNCHANGED listening
    /\ UNCHANGED <<up, collector, client, registration_errors, regCalls,
                   reg, okBy, connectors, mutex, poll>>

\* The connection to the aggregator breaks while the handler's OK is on its
\* way: the collector's pending register call resolves to Err with a
\* transport status although the handler has appended. (Losing an error
\* response leaves the call an Err.) At most MaxLost responses are lost.
RegisterResponseLost ==
    /\ UNCHANGED pureVars
    /\ cpc = "Register"
    /\ \E a \in collector :
        /\ reg[a].pc = "ret"
        /\ reg[a].result = "OK"
        /\ okBy[a] <= MaxLost
        /\ reg' = [reg EXCEPT ![a].result = "Unavailable"]
    /\ UNCHANGED <<up, collectorVars, okBy, connectors, mutex, poll>>

\* The register call resolves. Ok leaves the while-let for handle.await;
\* Err warns and sleeps one second.
CollectorRegisterReturn ==
    /\ UNCHANGED pureVars
    /\ cpc = "Register"
    /\ \E a \in collector :
        /\ reg[a].pc = "ret"
        /\ cpc' = IF reg[a].result = "OK" THEN "Registered" ELSE "RegBackoff"
        /\ reg' = [reg EXCEPT ![a] = IdleReg]
    /\ UNCHANGED <<up, collector, listening, client, connection_attempts,
                   registration_errors, regCalls, okBy, connectors, mutex, poll>>

\* A faulty CollectorRegRetry: with the budget spent the collector gives up
\* registering without a panic and goes on serving.
CollectorRegRetry_GiveUpQuietly ==
    /\ UNCHANGED pureVars
    /\ cpc = "RegBackoff"
    /\ registration_errors' = registration_errors + 1
    /\ IF registration_errors + 1 >= MaxRegistrationErrors
       THEN /\ cpc' = "Serving"
            /\ UNCHANGED <<listening, regCalls, reg>>
       ELSE /\ cpc' = "Register"
            /\ regCalls' = regCalls + 1
            /\ \E a \in collector : Invoke(a)
            /\ UNCHANGED listening
    /\ UNCHANGED <<up, collector, client, connection_attempts, okBy,
                   connectors, mutex, poll>>

\* A faulty CollectorRegRetry: a failed register goes back to the connect
\* loop instead of calling again on the client it has.
CollectorRegRetry_Reconnect ==
    /\ UNCHANGED pureVars
    /\ cpc = "RegBackoff"
    /\ registration_errors' = registration_errors + 1
    /\ IF registration_errors + 1 >= MaxRegistrationErrors
       THEN /\ cpc' = "FailedFatal"
            /\ listening' = FALSE
            /\ UNCHANGED <<client, connection_attempts>>
       ELSE /\ cpc' = "Connect"
            /\ client' = FALSE
            /\ connection_attempts' = connection_attempts + 1
            /\ UNCHANGED listening
    /\ UNCHANGED <<up, collector, regCalls, reg, okBy, connectors, mutex, poll>>

\* The sleep after a failed register is over: count the error, panic once
\* the budget is spent, else the while-let calls register again.
CollectorRegRetry ==
    /\ UNCHANGED pureVars
    /\ cpc = "RegBackoff"
    /\ registration_errors' = registration_errors + 1
    /\ IF registration_errors + 1 >= MaxRegistrationErrors
       THEN /\ cpc' = "FailedFatal"
            /\ listening' = FALSE
            /\ UNCHANGED <<regCalls, reg>>
       ELSE /\ cpc' = "Register"
            /\ regCalls' = regCalls + 1
            /\ \E a \in collector : Invoke(a)
            /\ UNCHANGED listening
    /\ UNCHANGED <<up, collector, client, connection_attempts, okBy,
                   connectors, mutex, poll>>

\* ------------------------------------------------ GET /metrics (web)

\* A request is routed to metrics(), which awaits the registry lock.
PollStart(p) ==
    /\ UNCHANGED pureVars
    /\ poll[p].pc = "idle"
    /\ poll' = [poll EXCEPT ![p] = [IdlePoll EXCEPT !.pc = "lock",
                                                    !.n0 = Len(connectors)]]
    /\ UNCHANGED <<up, collectorVars, reg, okBy, connectors, mutex>>

\* app_state.connectors.lock().await resolves; metrics = vec![]; the for loop
\* issues its first request_metrics (or falls through on an empty vector).
PollLock(p) ==
    /\ UNCHANGED pureVars
    /\ poll[p].pc = "lock"
    /\ mutex = Free
    /\ mutex' = {p}
    /\ poll' = [poll EXCEPT ![p] = [IdlePoll EXCEPT !.pc = "wait", !.i = 1,
                                       !.n0 = poll[p].n0, !.n = Len(connectors),
                                       !.quiet = TRUE]]
    /\ UNCHANGED <<up, collectorVars, reg, okBy, connectors>>

\* A faulty PollReply: the error return leaves the guard locked.
PollReply_KeepsGuard(p) ==
    /\ UNCHANGED pureVars
    /\ poll[p].pc = "wait"
    /\ poll[p].i <= Len(connectors)
    /\ IF Reach(connectors[poll[p].i].addr)
       THEN poll' = [poll EXCEPT ![p].metrics = Append(@, connectors[poll[p].i].addr),
                                 ![p].i = @ + 1]
       ELSE poll' = [poll EXCEPT ![p] = Response(500, <<>>)]
    /\ UNCHANGED <<up, collectorVars, reg, okBy, connectors, mutex>>

\* The pending request_metrics to clients[i] resolves. Ok: push the snapshot
\* and go round the loop. Err: map_err to 500 and `?` returns, dropping the
\* guard and the snapshots collected so far.
PollReply(p) ==
    /\ UNCHANGED pureVars
    /\ poll[p].pc = "wait"
    /\ poll[p].i <= Len(connectors)
    /\ IF Reach(connectors[poll[p].i].addr)
       THEN /\ poll' = [poll EXCEPT ![p].metrics = Append(@, connectors[poll[p].i].addr),
                                    ![p].i = @ + 1]
            /\ UNCHANGED mutex
       ELSE /\ poll' = [poll EXCEPT ![p] = Response(500, <<>>)]
            /\ mutex' = Free
    /\ UNCHANGED <<up, collectorVars, reg, okBy, connectors>>

\* The loop is over: render one block per collected snapshot, 200.
PollRender(p) ==
    /\ UNCHANGED pureVars
    /\ poll[p].pc = "wait"
    /\ poll[p].i > Len(connectors)
    /\ poll' = [poll EXCEPT ![p] = Response(200, poll[p].metrics)]
    /\ mutex' = Free
    /\ UNCHANGED <<up, collectorVars, reg, okBy, connectors>>

\* The response has been delivered; the handler invocation is over.
PollReturn(p) ==
    /\ UNCHANGED pureVars
    /\ poll[p].pc = "done"
    /\ poll' = [poll EXCEPT ![p] = IdlePoll]
    /\ UNCHANGED <<up, collectorVars, reg, okBy, connectors, mutex>>

\* ------------------------------------------------------- environment

LinkChange(a) ==
    /\ UNCHANGED pureVars
    /\ up' = [up EXCEPT ![a] = ~@]
    /\ poll' = Disturb
    /\ UNCHANGED <<collectorVars, reg, okBy, connectors, mutex>>

\* -------------------------------------------------------------- u64

\* A u64 as four 16-bit limbs, least significant first.
Limb == 2^16

U64Zero == <<0, 0, 0, 0>>

\* n as a u64, for n below 2^31.
U64(n) == <<n % Limb, n \div Limb, 0, 0>>

\* x * k + d for small k and d; over: the result does not fit 64 bits, and
\* val is then the result modulo 2^64.
MulAdd(x, k, d) ==
    LET p1 == x[1] * k + d
        p2 == x[2] * k + (p1 \div Limb)
        p3 == x[3] * k + (p2 \div Limb)
        p4 == x[4] * k + (p3 \div Limb)
    IN  [val |-> <<p1 % Limb, p2 % Limb, p3 % Limb, p4 % Limb>>,
         over |-> p4 \div Limb > 0]

\* x - y; over: y exceeds x, and val is then the difference modulo 2^64.
Sub(x, y) ==
    LET d1 == Limb + x[1] - y[1]
        d2 == Limb + x[2] - y[2] - (1 - (d1 \div Limb))
        d3 == Limb + x[3] - y[3] - (1 - (d2 \div Limb))
        d4 == Limb + x[4] - y[4] - (1 - (d3 \div Limb))
    IN  [val |-> <<d1 % Limb, d2 % Limb, d3 % Limb, d4 % Limb>>,
         over |-> d4 \div Limb = 0]

\* --------------------------------------------------------------- text

\* An Option or io::Result as a sequence of at most one value.
None == <<>>
Some(x) == <<x>>

\* Text is a sequence of characters.
Whitespace == {" ", "\t", "\n", "\r"}
Digits == <<"0", "1", "2", "3", "4", "5", "6", "7", "8", "9">>

\* str::trim
RECURSIVE TrimStart(_)
TrimStart(s) ==
    IF s # <<>> /\ Head(s) \in Whitespace THEN TrimStart(Tail(s)) ELSE s

RECURSIVE TrimEnd(_)
TrimEnd(s) ==
    IF s # <<>> /\ s[Len(s)] \in Whitespace
    THEN TrimEnd(SubSeq(s, 1, Len(s) - 1)) ELSE s

Trim(s) == TrimEnd(TrimStart(s))

\* str::starts_with
StartsWith(s, key) == Len(key) <= Len(s) /\ SubSeq(s, 1, Len(key)) = key

\* The length of the run of non-whitespace characters s begins with.
RECURSIVE WordLen(_)
WordLen(s) ==
    IF s = <<>> \/ Head(s) \in Whitespace THEN 0 ELSE 1 + WordLen(Tail(s))

\* str::split_whitespace, collected
RECURSIVE SplitWhitespace(_)
SplitWhitespace(s) ==
    IF s = <<>> THEN <<>>
    ELSE IF Head(s) \in Whitespace THEN SplitWhitespace(Tail(s))
    ELSE <<SubSeq(s, 1, WordLen(s))>>
         \o SplitWhitespace(SubSeq(s, WordLen(s) + 1, Len(s)))

\* Iterator::nth(1) of the tokens
Nth1(parts) == IF Len(parts) >= 2 THEN Some(parts[2]) ELSE None

\* The digit loop of u64::from_str: checked multiply by ten, checked add.
RECURSIVE FromDigits(_, _)
FromDigits(s, acc) ==
    IF s = <<>> THEN Some(acc)
    ELSE IF \A d \in 1..10 : Digits[d] # Head(s) THEN None
    ELSE LET r == MulAdd(acc, 10, (CHOOSE d \in 1..10 : Digits[d] = Head(s)) - 1)
         IN  IF r.over THEN None ELSE FromDigits(Tail(s), r.val)

\* str::parse::<u64>, as an Option: an optional +, then one digit or more.
ParseU64(tok) ==
    LET digits == IF tok # <<>> /\ Head(tok) = "+" THEN Tail(tok) ELSE tok
    IN  IF digits = <<>> THEN None ELSE FromDigits(digits, U64Zero)

\* ------------------------------------------- request_metrics (collector)

KeyMemTotal == <<"M", "e", "m", "T", "o", "t", "a", "l">>
KeyMemAvailable == <<"M", "e", "m", "A", "v", "a", "i", "l", "a", "b", "l", "e">>
KeyMemFree == <<"M", "e", "m", "F", "r", "e", "e">>
KeyBuffers == <<"B", "u", "f", "f", "e", "r", "s">>
KeyCached == <<"C", "a", "c", "h", "e", "d">>

\* The five locals of memory_usage; panicked: an unwrap or the checked
\* multiplication has panicked.
ZeroMemory == [mem_total |-> U64Zero, mem_free |-> U64Zero,
               mem_available |-> U64Zero, buffers |-> U64Zero,
               cached |-> U64Zero]
MemoryLocals == [m |-> ZeroMemory, panicked |-> FALSE]

\* One `if line.starts_with(key) { field = .. * 1000 }` of the loop body.
\* checks: the build has overflow checks (debug profile), so the
\* multiplication panics where the release profile wraps.
ScanKey(st, line, key, field, checks) ==
    IF st.panicked \/ ~StartsWith(line, key) THEN st
    ELSE LET tok == Nth1(SplitWhitespace(line))
             n == IF tok = None THEN None ELSE ParseU64(tok[1])
         IN  IF n = None THEN [st EXCEPT !.panicked = TRUE]
             ELSE LET r == MulAdd(n[1], 1000, 0)
                  IN  IF r.over /\ checks THEN [st EXCEPT !.panicked = TRUE]
                      ELSE [st EXCEPT !.m[field] = r.val]

\* The body of `for line in file.lines()`
ScanLine(st, line, checks) ==
    ScanKey(ScanKey(ScanKey(ScanKey(ScanKey(st,
        line, KeyMemTotal, "mem_total", checks),
        line, KeyMemAvailable, "mem_available", checks),
        line, KeyMemFree, "mem_free", checks),
        line, KeyBuffers, "buffers", checks),
        line, KeyCached, "cached", checks)

RECURSIVE ScanLines(_, _, _)
ScanLines(st, lines, checks) ==
    IF lines = <<>> THEN st
    ELSE ScanLines(ScanLine(st, Head(lines), checks), Tail(lines), checks)

\* memory_usage on the meminfo file (None: it cannot be read; else its
\* lines): Err, Ok(Memory) or a panic.
memory_usage(file, checks) ==
    IF file = None THEN [kind |-> "Err", m |-> ZeroMemory]
    ELSE LET st == ScanLines(MemoryLocals, file[1], checks)
         IN  [kind |-> IF st.panicked THEN "Panic" ELSE "Ok",
              m |-> IF st.panicked THEN ZeroMemory ELSE st.m]

\* hostname on the hostname file (None: it cannot be read; else its text)
hostname(file) == IF file = None THEN None ELSE Some(Trim(file[1]))

NoResponse == [kind |-> "none", message |-> "", host |-> <<>>, memory |-> None]

\* The handler: the hostname with `?`, then the memory with `.ok()`.
request_metrics(hfile, mfile, checks) ==
    IF hostname(hfile) = None
    THEN [NoResponse EXCEPT !.kind = "Internal",
                            !.message = "Could not get hostname"]
    ELSE LET mu == memory_usage(mfile, checks)
         IN  IF mu.kind = "Panic" THEN [NoResponse EXCEPT !.kind = "Panic"]
             ELSE [NoResponse EXCEPT
                     !.kind = "Ok",
                     !.host = hostname(hfile)[1],
                     !.memory = IF mu.kind = "Ok" THEN Some(mu.m) ELSE None]

\* The files the checked calls read.
Entry(key, tok) == key \o <<":", " ">> \o tok \o <<" ", "k", "B">>

SampleLines ==
    { Entry(KeyMemTotal, <<"8">>),
      Entry(KeyMemFree, <<"3">>),
      Entry(KeyMemAvailable, <<"4">>),
      Entry(KeyBuffers, <<"1">>),
      Entry(KeyCached, <<"2">>),
      <<"S", "w", "a", "p">> \o Entry(KeyCached, <<"9">>),
      KeyMemTotal \o <<":">>,
      Entry(KeyBuffers, <<"x">>),
      Entry(KeyMemTotal, <<"1", "8", "4", "4", "6", "7", "4", "4", "0",
                           "7", "3", "7", "0", "9", "5", "5", "2">>) }

Tables == UNION {[1..n -> SampleLines] : n \in 0..MaxLines}

HostnameFiles == {None, Some(<<"w", "1", "\n">>)}
MeminfoFiles == {None} \cup {Some(t) : t \in Tables}

IdleRpc == [pc |-> "idle", resp |-> NoResponse]

\* A RequestMetrics call is served.
RequestMetrics ==
    /\ rpc.pc = "idle"
    /\ rpc' = [pc |-> "done",
               resp |-> request_metrics(hostname_file, meminfo, overflow_checks)]
    /\ UNCHANGED <<overflow_checks, hostname_file, meminfo, snapshot, page>>
    /\ UNCHANGED systemVars

\* Its outcome has reached the caller.
MetricsReturn ==
    /\ rpc.pc = "done"
    /\ rpc' = IdleRpc
    /\ UNCHANGED <<overflow_checks, hostname_file, meminfo, snapshot, page>>
    /\ UNCHANGED systemVars

\* The host changes a file between calls: the hostname file appears or
\* goes; the meminfo file appears, goes, gains a line or loses its last.
HostWrite ==
    /\ rpc.pc = "idle"
    /\ \/ /\ hostname_file' \in HostnameFiles \ {hostname_file}
          /\ UNCHANGED meminfo
       \/ /\ meminfo' = IF meminfo = None THEN Some(<<>>) ELSE None
          /\ UNCHANGED hostname_file
       \/ /\ meminfo # None
          /\ Len(meminfo[1]) < MaxLines
          /\ \E l \in SampleLines : meminfo' = Some(Append(meminfo[1], l))
          /\ UNCHANGED hostname_file
       \/ /\ meminfo # None
          /\ meminfo[1] # <<>>
          /\ meminfo' = Some(SubSeq(meminfo[1], 1, Len(meminfo[1]) - 1))
          /\ UNCHANGED hostname_file
    /\ UNCHANGED <<overflow_checks, rpc, snapshot, page>>
    /\ UNCHANGED systemVars

\* ------------------------------------------------- rendering (web)

\* mem_total .. cached: the field of the memory block, 0 without one.
mem_total(metric) == IF metric.memory = None THEN U64Zero ELSE metric.memory[1].mem_total
mem_free(metric) == IF metric.memory = None THEN U64Zero ELSE metric.memory[1].mem_free
buffers(metric) == IF metric.memory = None THEN U64Zero ELSE metric.memory[1].buffers
cached(metric) == IF metric.memory = None THEN U64Zero ELSE metric.memory[1].cached

\* total - free - buffers - cached, left to right; over: a subtraction
\* went below zero.
used(metric) ==
    LET a == Sub(mem_total(metric), mem_free(metric))
        b == Sub(a.val, buffers(metric))
        c == Sub(b.val, cached(metric))
    IN  [val |-> c.val, over |-> a.over \/ b.over \/ c.over]

\* The snapshots the checked renderings are given.
SampleValues == {U64Zero, U64(150000), U64(200000), U64(1000000),
                 <<Limb - 1, Limb - 1, Limb - 1, Limb - 1>>}

Snapshots ==
    {[memory |-> None]} \cup
    {[memory |-> Some([ZeroMemory EXCEPT !.mem_total = t, !.mem_free = f,
                                         !.buffers = b, !.cached = c])] :
        t \in SampleValues, f \in SampleValues,
        b \in SampleValues, c \in SampleValues}

IdlePage == [pc |-> "idle", kind |-> "none", used |-> U64Zero]

\* The html! block renders one metric: with overflow checks a subtraction
\* below zero panics in the handler, without them it wraps.
Render ==
    /\ page.pc = "idle"
    /\ page' = IF used(snapshot).over /\ overflow_checks
               THEN [pc |-> "done", kind |-> "Panic", used |-> U64Zero]
               ELSE [pc |-> "done", kind |-> "Html", used |-> used(snapshot).val]
    /\ UNCHANGED <<overflow_checks, hostname_file, meminfo, rpc, snapshot>>
    /\ UNCHANGED systemVars

\* The rendering has left the handler.
RenderReturn ==
    /\ page.pc = "done"
    /\ page' = IdlePage
    /\ UNCHANGED <<overflow_checks, hostname_file, meminfo, rpc, snapshot>>
    /\ UNCHANGED systemVars

\* The next poll collects another snapshot.
SnapshotArrives ==
    /\ page.pc = "idle"
    /\ snapshot' \in Snapshots \ {snapshot}
    /\ UNCHANGED <<overflow_checks, hostname_file, meminfo, rpc, page>>
    /\ UNCHANGED systemVars

\* ------------------------------------------------------ specification

\* No call is being served and no page rendered.
PureIdle ==
    /\ overflow_checks = FALSE
    /\ hostname_file = None
    /\ meminfo = None
    /\ rpc = IdleRpc
    /\ snapshot = [memory |-> None]
    /\ page = IdlePage

Init ==
    /\ PureIdle
    /\ up \in [Agents -> BOOLEAN]
    /\ collector = {}
    /\ listening = FALSE
    /\ cpc = "Starting"
    /\ client = FALSE
    /\ connection_attempts = 0
    /\ registration_errors = 0
    /\ regCalls = 0
    /\ reg = [a \in Agents |-> IdleReg]
    /\ okBy = [a \in Agents |-> 0]
    /\ connectors = <<>>
    /\ mutex = Free
    /\ poll = [p \in Polls |-> IdlePoll]

Next ==
    \/ \E a \in Agents : ClientCall(a)
    \/ \E a \in Agents : RegisterDial(a)
    \/ \E a \in Agents : RegisterAppend(a)
    \/ \E a \in Agents : ClientReturn(a)
    \/ \E p \in Polls : PollStart(p)
    \/ \E p \in Polls : PollLock(p)
    \/ \E p \in Polls : PollReply(p)
    \/ \E p \in Polls : PollRender(p)
    \/ \E p \in Polls : PollReturn(p)
    \/ \E a \in Agents : LinkChange(a)

Spec == Init /\ [][Next]_vars

\* The aggregator under the scheduling tokio gives its tasks: a ready task is
\* run, and the mutex serves its waiters in turn. The reply to a pending
\* request_metrics and the outcome of a dial are the remote side's to give.
LiveSpec ==
    /\ Spec
    /\ \A p \in Polls : SF_vars(PollLock(p))
    /\ \A p \in Polls : WF_vars(PollRender(p))
    /\ \A p \in Polls : WF_vars(PollReturn(p))
    /\ \A a \in Agents : SF_vars(RegisterAppend(a))

\* The system with one collector process, at any of the addresses.
SysInit ==
    /\ PureIdle
    /\ up \in [Agents -> BOOLEAN]
    /\ collector \in {{a} : a \in Agents}
    /\ listening = FALSE
    /\ cpc = "Starting"
    /\ client = FALSE
    /\ connection_attempts = 0
    /\ registration_errors = 0
    /\ regCalls = 0
    /\ reg = [a \in Agents |-> IdleReg]
    /\ okBy = [a \in Agents |-> 0]
    /\ connectors = <<>>
    /\ mutex = Free
    /\ poll = [p \in Polls |-> IdlePoll]

SysNext ==
    \/ ServerBind
    \/ CollectorStart
    \/ \E ok \in BOOLEAN : CollectorConnect(ok)
    \/ CollectorConnRetry
    \/ RegisterResponseLost
    \/ CollectorRegisterReturn
    \/ CollectorRegRetry
    \/ \E a \in Agents : RegisterDial(a)
    \/ \E a \in Agents : RegisterAppend(a)
    \/ \E p \in Polls : PollStart(p)
    \/ \E p \in Polls : PollLock(p)
    \/ \E p \in Polls : PollReply(p)
    \/ \E p \in Polls : PollRender(p)
    \/ \E p \in Polls : PollReturn(p)
    \/ \E a \in Agents : LinkChange(a)

SysSpec == SysInit /\ [][SysNext]_vars

\* The bootstrap of one collector against the aggregator's Register
\* handler, with no poll running. Every step of the collector's main task is
\* taken once it can be (tokio runs a ready task, a sleep ends), and every
\* connect and register call returns: the connect resolves, the handler's
\* dial resolves and its append gets the lock.
BootNext ==
    \/ ServerBind
    \/ CollectorStart
    \/ \E ok \in BOOLEAN : CollectorConnect(ok)
    \/ CollectorConnRetry
    \/ RegisterResponseLost
    \/ CollectorRegisterReturn
    \/ CollectorRegRetry
    \/ \E a \in Agents : RegisterDial(a)
    \/ \E a \in Agents : RegisterAppend(a)
    \/ \E a \in Agents : LinkChange(a)

BootSpec ==
    /\ SysInit
    /\ [][BootNext]_vars
    /\ WF_vars(CollectorStart)
    /\ WF_vars(\E ok \in BOOLEAN : CollectorConnect(ok))
    /\ WF_vars(CollectorConnRetry)
    /\ WF_vars(CollectorRegisterReturn)
    /\ WF_vars(CollectorRegRetry)
    /\ \A a \in Agents : WF_vars(RegisterDial(a))
    /\ \A a \in Agents : WF_vars(RegisterAppend(a))

\* Neither a registration nor a poll is in progress.
SystemIdle ==
    /\ up = [a \in Agents |-> TRUE]
    /\ collector = {}
    /\ listening = FALSE
    /\ cpc = "Starting"
    /\ client = FALSE
    /\ connection_attempts = 0
    /\ registration_errors = 0
    /\ regCalls = 0
    /\ reg = [a \in Agents |-> IdleReg]
    /\ okBy = [a \in Agents |-> 0]
    /\ connectors = <<>>
    /\ mutex = Free
    /\ poll = [p \in Polls |-> IdlePoll]

\* The collector's RequestMetrics handler on any host files, in either
\* build profile.
HostInit ==
    /\ SystemIdle
    /\ overflow_checks \in BOOLEAN
    /\ hostname_file \in HostnameFiles
    /\ meminfo \in MeminfoFiles
    /\ rpc = IdleRpc
    /\ snapshot = [memory |-> None]
    /\ page = IdlePage

HostNext ==
    \/ RequestMetrics
    \/ MetricsReturn
    \/ HostWrite

HostSpec == HostInit /\ [][HostNext]_vars

\* The aggregator's rendering of any collected snapshot, in either build
\* profile.
ViewInit ==
    /\ SystemIdle
    /\ overflow_checks \in BOOLEAN
    /\ hostname_file = None
    /\ meminfo = None
    /\ rpc = IdleRpc
    /\ snapshot \in Snapshots
    /\ page = IdlePage

ViewNext ==
    \/ Render
    \/ RenderReturn
    \/ SnapshotArrives

ViewSpec == ViewInit /\ [][ViewNext]_vars

\* ================================================================ claims

\* The addresses of a sequence of stored clients.
Addrs(cs) == [k \in 1..Len(cs) |-> cs[k].addr]

Answers(c) == Reach(c.addr)

\* The registry as poll p locked it (the vector does not change under the guard).
Snapshot(p) == SubSeq(connectors, 1, poll[p].n)

\* The registry entries whose address does not answer now.
Down(p) == {k \in 1..poll[p].n : ~Reach(connectors[k].addr)}

\* Poll p's handler returns in this step.
Returns(p) == poll[p].pc = "wait" /\ poll'[p].pc = "done"

\* The entries of the registry made for address a.
Copies(a) == Cardinality({k \in 1..Len(connectors) : connectors[k].addr = a})

RECURSIVE SumOk(_)
SumOk(S) == IF S = {} THEN 0
            ELSE LET a == CHOOSE x \in S : TRUE IN okBy[a] + SumOk(S \ {a})

\* C1: every poll ends with 200 and the snapshots of all agents that answered:
\* a failing agent is left out and never makes the response an error.
C1_PartialFailureIsolation ==
    [][\A p \in Polls : Returns(p) =>
          /\ poll'[p].status = 200
          /\ poll[p].quiet =>
                poll'[p].body = Addrs(SelectSeq(Snapshot(p), Answers))]_vars

\* C2: a poll during which exactly one of the N registered agents is
\* unreachable returns N-1 results, a poll during which all are reachable
\* returns N, and no step makes the registry shorter.
C2_RecoveryWithoutEviction ==
    [][/\ \A p \in Polls : Returns(p) /\ poll[p].quiet =>
             /\ Cardinality(Down(p)) = 1 =>
                    poll'[p].status = 200 /\ Len(poll'[p].body) = poll[p].n - 1
             /\ Down(p) = {} =>
                    poll'[p].status = 200 /\ Len(poll'[p].body) = poll[p].n
       /\ Len(connectors') >= Len(connectors)]_vars

\* The part of C2 the code keeps: polls never remove an entry, and a poll
\* made while every registered agent answers returns all N.
RegistryNeverShrinks ==
    [][/\ Len(connectors') >= Len(connectors)
       /\ SubSeq(connectors', 1, Len(connectors)) = connectors
       /\ \A p \in Polls : Returns(p) /\ poll[p].quiet /\ Down(p) = {} =>
             poll'[p].status = 200 /\ Len(poll'[p].body) = poll[p].n]_vars

\* C3: Register answers OK exactly when its reverse dial succeeded; a failed
\* dial answers an internal error and leaves the registry as it was; so every
\* registry entry comes from a dial that succeeded.
C3_AcceptedIffDialSucceeds ==
    /\ [](/\ \A a \in Agents :
               /\ reg[a].pc = "lock" => reg[a].dial = "ok"
               /\ reg[a].pc = "ret" =>
                     /\ reg[a].result = "OK" <=> reg[a].dial = "ok"
                     /\ reg[a].result = "Internal" <=> reg[a].dial = "failed"
          /\ \A k \in 1..Len(connectors) : connectors[k].proven)
    /\ [][\A a \in Agents :
            reg[a].pc = "dial" /\ reg'[a].pc # "dial" =>
               IF Reach(a)
               THEN reg'[a].pc = "lock"
               ELSE /\ reg'[a].pc = "ret"
                    /\ reg'[a].result = "Internal"
                    /\ connectors' = connectors]_vars

C3_Witness ==
    \E a, b \in Agents :
        /\ reg[a].pc = "ret" /\ reg[a].result = "Internal"
        /\ reg[b].pc = "ret" /\ reg[b].result = "OK"
        /\ Len(connectors) = 1 /\ connectors[1].addr = b

\* C4: every OK acknowledgment stands for exactly one registry entry of the
\* caller's address, entries for one address are not merged, and a poll in
\* which no call fails returns one result per entry.
C4_OneEntryPerRegistration ==
    /\ [](\A a \in Agents : Copies(a) = okBy[a])
    /\ [][\A a \in Agents :
            reg[a].pc = "lock" /\ reg'[a].pc = "ret" =>
               connectors' = Append(connectors, Client(a, TRUE))]_vars
    /\ [][\A p \in Polls : Returns(p) =>
            /\ poll'[p].status = 500 => Down(p) # {}
            /\ poll'[p].status = 200 =>
                  /\ poll[p].n = Len(connectors)
                  /\ poll'[p].body = Addrs(connectors)]_vars

C4_Witness ==
    /\ Len(connectors) = 2
    /\ connectors[1].addr = connectors[2].addr
    /\ \E p \in Polls :
         poll[p].pc = "done" /\ poll[p].status = 200 /\ Len(poll[p].body) = 2

\* C5: whenever no Register call is in progress, the registry holds as many
\* entries as Register calls have answered OK, whatever the interleaving of
\* the calls with each other and with polls.
C5_ConcurrentRegistrations ==
    InFlight = {} => Len(connectors) = SumOk(Agents)

C5_Witness ==
    /\ InFlight = {}
    /\ \E a, b \in Agents :
         /\ a # b
         /\ reg[a].pc = "ret" /\ reg[a].result = "OK"
         /\ reg[b].pc = "ret" /\ reg[b].result = "OK"
    /\ Len(connectors) = 2
    /\ \E p \in Polls : poll[p].pc = "done" /\ Len(poll[p].body) = 1

\* C6: a failed connect is followed by the backoff and a retry; the fifth
\* failure ends the process without a register call having been made; and
\* Registered is reached only after a register call was answered OK.
C6_DialRetryBudget ==
    /\ [](/\ connection_attempts <= MaxConnectionAttempts
          /\ cpc \in {"Starting", "Connect", "ConnBackoff"} => ~client /\ regCalls = 0
          /\ cpc = "FailedFatal" /\ ~client =>
                /\ connection_attempts = MaxConnectionAttempts
                /\ regCalls = 0
                /\ \A a \in Agents : okBy[a] = 0 /\ reg[a].pc = "idle"
          /\ cpc = "Registered" =>
                client /\ regCalls >= 1 /\ \E a \in collector : okBy[a] >= 1)
    /\ [][/\ cpc = "Connect" /\ cpc' # "Connect" /\ ~client' => cpc' = "ConnBackoff"
          /\ cpc = "ConnBackoff" /\ cpc' # "ConnBackoff" =>
                IF connection_attempts < MaxConnectionAttempts
                THEN cpc' = "Connect" /\ connection_attempts' = connection_attempts + 1
                ELSE cpc' = "FailedFatal"
          /\ cpc' = "FailedFatal" /\ cpc # "FailedFatal" /\ ~client =>
                cpc = "ConnBackoff"]_vars

C6_Witness ==
    cpc = "FailedFatal" /\ ~client /\ connection_attempts = MaxConnectionAttempts

\* C7: a failed register call is followed by the backoff and another call on
\* the same client, the connect loop is not run again, at most five calls are
\* made, the fifth failure is fatal and the first OK ends in Registered.
C7_RegistrationRetryBudget ==
    /\ [](/\ regCalls <= MaxRegistrationErrors
          /\ registration_errors <= MaxRegistrationErrors
          /\ cpc = "Register" => client /\ regCalls = registration_errors + 1
          /\ cpc = "RegBackoff" => client /\ regCalls = registration_errors + 1
          /\ cpc = "FailedFatal" /\ client =>
                /\ registration_errors = MaxRegistrationErrors
                /\ regCalls = MaxRegistrationErrors
          /\ cpc = "Registered" =>
                /\ registration_errors < MaxRegistrationErrors
                /\ regCalls = registration_errors + 1)
    /\ [][/\ client => client' /\ connection_attempts' = connection_attempts
          /\ cpc = "Register" /\ cpc' # "Register" =>
                \E a \in collector :
                    /\ reg[a].pc = "ret"
                    /\ cpc' = IF reg[a].result = "OK" THEN "Registered" ELSE "RegBackoff"
          /\ cpc = "RegBackoff" /\ cpc' # "RegBackoff" =>
                IF registration_errors + 1 < MaxRegistrationErrors
                THEN cpc' = "Register" /\ regCalls' = regCalls + 1
                ELSE cpc' = "FailedFatal"
          /\ cpc = "Registered" => cpc' = "Registered" /\ regCalls' = regCalls]_vars

C7_Witness ==
    /\ cpc = "Registered"
    /\ registration_errors = MaxRegistrationErrors - 1
    /\ regCalls = MaxRegistrationErrors

\* C8: every poll that has been accepted ends with a response, also when an
\* agent it calls never answers.
C8_BoundedPollResponse ==
    \A p \in Polls : (poll[p].pc \in {"lock", "wait"}) ~> (poll[p].pc = "done")

\* C9: while a poll waits for an agent's reply, a registration whose dial
\* has succeeded can append and return, and another poll can take the
\* registry.
C9_NoLockAcrossAwait ==
    \A p \in Polls :
        poll[p].pc = "wait" /\ poll[p].i <= Len(connectors) =>
            /\ \A a \in Agents : reg[a].pc = "lock" => ENABLED RegisterAppend(a)
            /\ \A q \in Polls : poll[q].pc = "lock" => ENABLED PollLock(q)

\* The connections poll p has called when it returns: up to the one that
\* failed, or all.
Queried(p) ==
    SubSeq(connectors, 1, IF poll[p].i <= poll[p].n THEN poll[p].i ELSE poll[p].n)

\* C10: the connections a poll queries are the whole registry as it was at
\* one instant between the poll's arrival and its return, each of them the
\* result of a successful dial and a finished append.
C10_AtomicPublication ==
    [][\A p \in Polls : Returns(p) =>
          /\ \E k \in poll[p].n0..Len(connectors) :
                Queried(p) = SubSeq(connectors, 1, k)
          /\ \A k \in 1..Len(Queried(p)) : Queried(p)[k].proven]_vars

\* The part of C10 the code keeps: under the guard the registry does not
\* change, and what the poll has collected are the first entries of it.
PollEnumeratesRegistry ==
    \A p \in Polls :
        poll[p].pc = "wait" =>
            /\ mutex = {p}
            /\ poll[p].n = Len(connectors)
            /\ poll[p].n0 <= poll[p].n
            /\ poll[p].i <= poll[p].n + 1
            /\ poll[p].metrics = Addrs(SubSeq(connectors, 1, poll[p].i - 1))

\* ------------------------------------------------ RequestMetrics claims

\* C11: a RequestMetrics call returns an internal error whenever the
\* hostname file or the meminfo file cannot be read, and only then: a call
\* made while both can be read is not failed by an earlier unreadable file.
C11_HostReadFailureIsInternal ==
    rpc.pc = "done" =>
        /\ (hostname_file = None \/ meminfo = None) => rpc.resp.kind = "Internal"
        /\ (hostname_file # None /\ meminfo # None) => rpc.resp.kind # "Internal"

\* The half of C11 that the hostname's `?` gives.
HostnameFailureIsInternal ==
    (rpc.pc = "done" /\ hostname_file = None) => rpc.resp.kind = "Internal"

\* An unreadable meminfo file is answered with a snapshot without memory.
MeminfoFailureIsDropped ==
    (rpc.pc = "done" /\ hostname_file # None /\ meminfo = None) =>
        rpc.resp.kind = "Ok" /\ rpc.resp.memory = None

\* The five keys and the fields they fill.
KeyFields == { <<KeyMemTotal, "mem_total">>, <<KeyMemFree, "mem_free">>,
               <<KeyMemAvailable, "mem_available">>,
               <<KeyBuffers, "buffers">>, <<KeyCached, "cached">> }

\* The last line of table t that starts with key, if any.
RECURSIVE LastLine(_, _)
LastLine(t, key) ==
    IF t = <<>> THEN None
    ELSE IF StartsWith(t[Len(t)], key) THEN Some(t[Len(t)])
    ELSE LastLine(SubSeq(t, 1, Len(t) - 1), key)

\* 1000 times the second token of line, where that is a u64.
Thousandfold(line) ==
    LET tok == Nth1(SplitWhitespace(line))
        n == IF tok = None THEN None ELSE ParseU64(tok[1])
    IN  IF n = None \/ MulAdd(n[1], 1000, 0).over THEN None
        ELSE Some(MulAdd(n[1], 1000, 0).val)

\* The value the parsing contract gives the field of key.
FieldOf(t, key) ==
    IF LastLine(t, key) = None THEN Some(U64Zero)
    ELSE Thousandfold(LastLine(t, key)[1])

\* The call returned a snapshot whose memory fields are those of the contract.
SnapshotAsContracted ==
    /\ rpc.resp.kind = "Ok"
    /\ rpc.resp.memory # None
    /\ \A kf \in KeyFields :
         Some(rpc.resp.memory[1][kf[2]]) = FieldOf(meminfo[1], kf[1])

\* The contract names a value for every field of t: the last line starting
\* with a key, where there is one, has a second token whose thousandfold is
\* a u64.
Contracted(t) == \A kf \in KeyFields : FieldOf(t, kf[1]) # None

\* C13: for every table, each memory field of the snapshot is 1000 times the
\* second token of the last line starting with its key, 0 when no line
\* starts with it (so all zero, and no error, for a table without the keys).
\* Stated for the tables on which these values exist.
C13_MemoryTableParsing ==
    (rpc.pc = "done" /\ hostname_file # None /\ meminfo # None
        /\ Contracted(meminfo[1])) => SnapshotAsContracted

\* Every line of t that starts with a key carries a second token that is a
\* u64 whose thousandfold is one too.
WellFormed(t) ==
    \A i \in 1..Len(t) : \A kf \in KeyFields :
        StartsWith(t[i], kf[1]) => Thousandfold(t[i]) # None

\* The contract of C13 on the tables the loop does not panic or wrap on.
ParsesWellFormedTables ==
    (rpc.pc = "done" /\ hostname_file # None /\ meminfo # None
        /\ WellFormed(meminfo[1])) => SnapshotAsContracted

\* ------------------------------------------------------ rendering claims

\* x + y as a number; over: the sum does not fit 64 bits.
Add(x, y) ==
    LET s1 == x[1] + y[1]
        s2 == x[2] + y[2] + (s1 \div Limb)
        s3 == x[3] + y[3] + (s2 \div Limb)
        s4 == x[4] + y[4] + (s3 \div Limb)
    IN  [val |-> <<s1 % Limb, s2 % Limb, s3 % Limb, s4 % Limb>>,
         over |-> s4 \div Limb > 0]

\* C12: for every snapshot, the rendering succeeds and the used value is
\* total - free - buffers - cached as a number: adding the three back gives
\* the total, with no wrap-around anywhere.
C12_UsedMemoryDerivation ==
    page.pc = "done" =>
        /\ page.kind = "Html"
        /\ LET s1 == Add(page.used, mem_free(snapshot))
               s2 == Add(s1.val, buffers(snapshot))
               s3 == Add(s2.val, cached(snapshot))
           IN  /\ ~s1.over /\ ~s2.over /\ ~s3.over
               /\ s3.val = mem_total(snapshot)

\* free + buffers + cached does not exceed total.
WithinTotal(metric) ==
    LET s1 == Add(mem_free(metric), buffers(metric))
        s2 == Add(s1.val, cached(metric))
    IN  /\ ~s1.over /\ ~s2.over
        /\ ~Sub(mem_total(metric), s2.val).over

\* The derivation of C12 on the snapshots it does not go below zero on.
UsedWithinTotal ==
    (page.pc = "done" /\ WithinTotal(snapshot)) =>
        /\ page.kind = "Html"
        /\ Add(Add(Add(page.used, mem_free(snapshot)).val,
                   buffers(snapshot)).val, cached(snapshot)).val
             = mem_total(snapshot)

\* ------------------------------------------------------ bootstrap claims

\* C14: the collector's metrics endpoint is listening whenever the collector
\* issues a registration call, the first one included.
C14_ListenBeforeRegister ==
    [][regCalls' > regCalls => listening]_vars

\* ---------------------------------------------------- registration claims

\* C15: the Register handler does not hold the registry lock during its
\* dial: the dial leaves the lock and the registry as they are, and a call
\* whose dial is done can append and return whenever no poll holds the
\* lock, whichever other calls are still dialling.
C15_NoLockDuringDial ==
    /\ [](\A a \in Agents :
            (reg[a].pc = "lock" /\ mutex = Free) => ENABLED RegisterAppend(a))
    /\ [][\A a \in Agents :
            (reg[a].pc = "dial" /\ reg'[a].pc # "dial") =>
                mutex' = mutex /\ connectors' = connectors]_vars

\* A call has appended and returned OK while another is in its dial.
C15_Witness ==
    \E a, b \in Agents :
        /\ reg[a].pc = "dial"
        /\ reg[b].pc = "ret" /\ reg[b].result = "OK"
        /\ \E i \in 1..Len(connectors) : connectors[i].addr = b

\* C16: whenever the collector is Registered, exactly one of its register
\* calls was acknowledged with OK and the registry holds exactly one entry
\* for it; once Registered it issues no further register call.
C16_ExactlyOnceAnnouncement ==
    /\ [](cpc = "Registered" =>
            \A a \in collector : okBy[a] = 1 /\ Copies(a) = 1)
    /\ [][cpc = "Registered" => regCalls' = regCalls]_vars

\* The half of C16 the while-let gives: no register call after Registered,
\* and at least one acknowledged call and entry then.
RegisteredOnceAtLeast ==
    /\ [](cpc = "Registered" =>
            \A a \in collector : okBy[a] >= 1 /\ Copies(a) = okBy[a])
    /\ [][cpc = "Registered" => regCalls' = regCalls /\ cpc' = "Registered"]_vars

\* The two terminal states of the bootstrap.
Terminal == {"Registered", "FailedFatal"}

\* C17: when every connect and register call returns, the bootstrap reaches
\* Registered or FailedFatal and stays there, having made at most five
\* connect attempts and at most five register calls; it is Registered only
\* with an acknowledged register call, and after FailedFatal the process
\* serves no more.
C17_BootstrapTerminates ==
    /\ <>(cpc \in Terminal)
    /\ [](/\ connection_attempts <= MaxConnectionAttempts
          /\ regCalls <= MaxRegistrationErrors
          /\ cpc = "Registered" => \A a \in collector : okBy[a] >= 1
          /\ cpc = "FailedFatal" => ~listening)
    /\ [][(cpc \in Terminal) => cpc' = cpc]_vars

\* The register loop has spent its budget: five calls, all failed, fatal.
C17_Witness ==
    /\ cpc = "FailedFatal"
    /\ client
    /\ regCalls = MaxRegistrationErrors
    /\ registration_errors = MaxRegistrationErrors

\* ------------------------------------------------------- publication claims

\* C18: an OK is returned only with the client appended, so an address that
\* has been acknowledged has an entry in the registry, and a poll queries
\* every entry that was acknowledged before the poll started.
C18_AcknowledgedIsPublished ==
    /\ [](\A a \in Agents : okBy[a] >= 1 => Copies(a) >= 1)
    /\ [][\A a \in Agents :
            okBy'[a] > okBy[a] =>
                /\ Len(connectors') = Len(connectors) + 1
                /\ connectors'[Len(connectors')].addr = a]_vars
    /\ [][\A p \in Polls : Returns(p) =>
            \A k \in 1..poll[p].n0 : k <= Len(Queried(p))]_vars

\* The part of C18 that the handler's order of push and return gives.
AcknowledgedHasEntry ==
    /\ [](\A a \in Agents : okBy[a] >= 1 => Copies(a) >= 1)
    /\ [][\A a \in Agents :
            okBy'[a] > okBy[a] =>
                /\ Len(connectors') = Len(connectors) + 1
                /\ connectors'[Len(connectors')].addr = a]_vars

\* A Registered collector has an entry in the registry.
RegisteredIsPublished ==
    cpc = "Registered" => \A a \in collector : Copies(a) >= 1

\* C19: a poll that ends with an error has left the registry as it was when
\* the poll locked it and has released the lock: the lock is only ever held
\* by a poll that is still calling its clients, and with the lock free every
\* waiting registration and every waiting poll can take it.
C19_FailedPollLeavesRegistryUsable ==
    /\ [](/\ mutex # Free => \E p \in Polls : mutex = {p} /\ poll[p].pc = "wait"
          /\ mutex = Free =>
               /\ \A a \in Agents : reg[a].pc = "lock" => ENABLED RegisterAppend(a)
               /\ \A p \in Polls : poll[p].pc = "lock" => ENABLED PollLock(p))
    /\ [][\A p \in Polls :
            /\ poll[p].pc = "wait" => connectors' = connectors
            /\ (Returns(p) /\ poll'[p].status = 500) => mutex' = Free]_vars

\* A poll has ended with 500, the lock is free and a registration whose dial
\* is done is about to take it.
C19_Witness ==
    \E p \in Polls : \E a \in Agents :
        /\ poll[p].pc = "done" /\ poll[p].status = 500
        /\ mutex = Free
        /\ Len(connectors) >= 1
        /\ reg[a].pc = "lock"

====
